---- MODULE Spec2Model ----
(***************************************************************************)
(* Community Blood Donor Finder: the App component (donor state, the one   *)
(* fetch on mount, the memoised filter and count, handleRequest) and the   *)
(* DonorCard request button.                                               *)
(*                                                                         *)
(* Strings that the code inspects character by character (city, city       *)
(* search) are sequences of one-character strings, so that trim,          *)
(* toLowerCase and includes are computed rather than assumed.              *)
(***************************************************************************)
EXTENDS Integers, Sequences, FiniteSets, TLC

VARIABLES donors, loading, selectedGroup, citySearch, requestStatus,
          filteredDonors, availableCount, pc, res, body

vars == <<donors, loading, selectedGroup, citySearch, requestStatus,
          filteredDonors, availableCount, pc, res, body>>

(* ------------------------------ bounds --------------------------------- *)
MaxId == 9
MaxUsers == 2
MaxSearchLen == 3

(* ----------------------------- constants ------------------------------- *)
BLOOD_GROUPS == <<"A+", "A-", "B+", "B-", "O+", "O-", "AB+", "AB-">>
ALL_BLOOD_GROUPS == <<"All">> \o BLOOD_GROUPS

Range(s) == {s[i] : i \in DOMAIN s}

(* --------------------- the environment's inputs ------------------------ *)
WhiteSpace == {" "}
Chars == {" ", "G"}
Cities == << <<"G", "w">>, <<"w", "g", "G">>, <<"g", " ", "G">> >>
Names == <<"Leanne", "Ervin">>

UserIds == 0..MaxId
User(id) == [id |-> id,
             name |-> Names[(id % 2) + 1],
             address |-> [city |-> Cities[((id \div 2) % 3) + 1]]]
\* an array element without an address: user.address.city throws
NoAddressUser == [id |-> 1, name |-> "Leanne"]
Elements == {User(id) : id \in UserIds} \cup {NoAddressUser}

SeqsUpTo(S, n) == UNION {[1..k -> S] : k \in 0..n}
\* what res.json() can resolve to: a JSON value that is not an array, or an
\* array of elements
NotArray == [isArray |-> FALSE, elems |-> <<>>]
\* the API lists its users by consecutive ids
ById(e) == \A i \in 1..(Len(e) - 1) : e[i + 1].id = e[i].id + 1
JsonValues == {NotArray} \cup
              {[isArray |-> TRUE, elems |-> e] :
                  e \in {x \in SeqsUpTo(Elements, MaxUsers) : ById(x)}}
SearchTexts == SeqsUpTo(Chars, MaxSearchLen)

(* --------------------------- string methods ---------------------------- *)
LowerChar(c) == CASE c = "G" -> "g"
                  [] c = "W" -> "w"
                  [] OTHER -> c
toLowerCase(s) == [i \in 1..Len(s) |-> LowerChar(s[i])]

SetMin(S) == CHOOSE x \in S : \A y \in S : x <= y
SetMax(S) == CHOOSE x \in S : \A y \in S : x >= y
trim(s) == LET keep == {i \in 1..Len(s) : s[i] \notin WhiteSpace}
           IN IF keep = {} THEN <<>> ELSE SubSeq(s, SetMin(keep), SetMax(keep))

includes(s, t) == \E i \in 0..(Len(s) - Len(t)) : SubSeq(s, i + 1, i + Len(t)) = t

(* ------------------------------ mapper --------------------------------- *)
\* mutant: the modulus is off by one
mapUserToDonorShortCycle(user) ==
    [id |-> user.id,
     name |-> user.name,
     city |-> user.address.city,
     bloodGroup |-> BLOOD_GROUPS[(user.id % (Len(BLOOD_GROUPS) - 1)) + 1],
     availability |-> (user.id % 3 # 0)]

mapUserToDonor(user) ==
    [id |-> user.id,
     name |-> user.name,
     city |-> user.address.city,
     bloodGroup |-> BLOOD_GROUPS[(user.id % Len(BLOOD_GROUPS)) + 1],
     availability |-> (user.id % 3 # 0)]

\* users.map(mapUserToDonor)
MapUsers(users) == [i \in 1..Len(users) |-> mapUserToDonor(users[i])]
\* users.map(...) throws: users is not an array, or an element has no address
MapThrows(json) == \/ ~json.isArray
                   \/ \E i \in 1..Len(json.elems) : "address" \notin DOMAIN json.elems[i]

(* ------------------------------ filter --------------------------------- *)
matchesGroup(donor, group) == group = "All" \/ donor.bloodGroup = group
\* mutant: the search text is compared untrimmed
matchesCityUntrimmed(donor, search) ==
    \/ trim(search) = <<>>
    \/ includes(toLowerCase(donor.city), toLowerCase(search))

matchesCity(donor, search) ==
    \/ trim(search) = <<>>
    \/ includes(toLowerCase(donor.city), toLowerCase(trim(search)))
Keep(donor, group, search) == matchesGroup(donor, group) /\ matchesCity(donor, search)

FilterDonors(ds, group, search) ==
    SelectSeq(ds, LAMBDA donor : Keep(donor, group, search))

\* mutant: the availability test is forgotten
CountAll(fd) == Len(fd)

CountAvailable(fd) == Len(SelectSeq(fd, LAMBDA d : d.availability))

\* useMemo(..., [donors, selectedGroup, citySearch]): recomputed on a render
\* where a dependency differs from the previous render's
MemoFiltered(ds, group, search) ==
    IF <<ds, group, search>> # <<donors, selectedGroup, citySearch>>
    THEN FilterDonors(ds, group, search)
    ELSE filteredDonors
\* useMemo(..., [filteredDonors])
MemoAvailable(fd) ==
    IF fd # filteredDonors THEN CountAvailable(fd) ELSE availableCount

\* the render that follows a state update
Render(ds, group, search) ==
    /\ filteredDonors' = MemoFiltered(ds, group, search)
    /\ availableCount' = MemoAvailable(MemoFiltered(ds, group, search))

(* ------------------------------- view ---------------------------------- *)
\* mutant: emptiness is tested before loading
ViewEmptyFirst == IF Len(filteredDonors) = 0 THEN "empty"
                  ELSE IF loading THEN "loading"
                  ELSE "grid"

View == IF loading THEN "loading"
        ELSE IF Len(filteredDonors) = 0 THEN "empty"
        ELSE "grid"

requested(id) == id \in DOMAIN requestStatus /\ requestStatus[id]
\* mutant: the button ignores the requested flag
isDisabledByAvailability(donor) == ~donor.availability

isDisabled(donor) == requested(donor.id) \/ ~donor.availability

(* ------------------------------- state --------------------------------- *)
EmptyStatus == [k \in {} |-> TRUE]

Init ==
    /\ donors = <<>>
    /\ loading = TRUE
    /\ selectedGroup = "All"
    /\ citySearch = <<>>
    /\ requestStatus = EmptyStatus
    /\ filteredDonors = <<>>
    /\ availableCount = 0
    /\ pc = "fetch"
    /\ res = "pending"
    /\ body = "pending"

(* --------------------------- fetch on mount ---------------------------- *)
\* mutant: the catch handler swallows the error and nothing else
CatchSilently == UNCHANGED <<donors, loading, filteredDonors, availableCount>>

\* .catch(() => setLoading(false))
Catch ==
    /\ loading' = FALSE
    /\ UNCHANGED <<donors, filteredDonors, availableCount>>

\* fetch() rejects: network error
FetchReject ==
    /\ pc = "fetch"
    /\ pc' = "done"
    /\ res' = "rejected"
    /\ body' = "none"
    /\ Catch
    /\ UNCHANGED <<selectedGroup, citySearch, requestStatus>>

\* fetch() resolves with a response, 2xx or not; res.json() starts
FetchResolve(ok) ==
    /\ pc = "fetch"
    /\ pc' = "json"
    /\ res' = IF ok THEN "ok" ELSE "non2xx"
    /\ UNCHANGED <<donors, loading, selectedGroup, citySearch, requestStatus,
                   filteredDonors, availableCount, body>>

\* res.json() rejects: the body is not JSON
JsonReject ==
    /\ pc = "json"
    /\ pc' = "done"
    /\ body' = "unparseable"
    /\ Catch
    /\ UNCHANGED <<selectedGroup, citySearch, requestStatus, res>>

\* res.json() resolves: .then((users) => {...}), and .catch when it throws.
\* setDonors and setLoading are called in the same callback and rendered
\* together.
JsonResolve(json) ==
    /\ pc = "json"
    /\ pc' = "done"
    /\ IF MapThrows(json)
       THEN /\ body' = "unmappable"
            /\ Catch
       ELSE /\ body' = "users"
            /\ donors' = MapUsers(json.elems)
            /\ loading' = FALSE
            /\ Render(MapUsers(json.elems), selectedGroup, citySearch)
    /\ UNCHANGED <<selectedGroup, citySearch, requestStatus, res>>

(* --------------------------- event handlers ---------------------------- *)
SetSelectedGroup(group) ==
    /\ selectedGroup' = group
    /\ Render(donors, group, citySearch)
    /\ UNCHANGED <<donors, loading, citySearch, requestStatus, pc, res, body>>

SetCitySearch(text) ==
    /\ citySearch' = text
    /\ Render(donors, selectedGroup, text)
    /\ UNCHANGED <<donors, loading, selectedGroup, requestStatus, pc, res, body>>

\* donors.find((d) => d.id === donorId): the first match, if any
FindIndex(ds, donorId) ==
    LET hits == {i \in 1..Len(ds) : ds[i].id = donorId}
    IN IF hits = {} THEN 0 ELSE SetMin(hits)

\* mutant: the previous entries are not spread into the new object
SpreadNothing(prev, donorId) == [k \in {donorId} |-> TRUE]

Spread(prev, donorId) ==
    [k \in DOMAIN prev \cup {donorId} |-> IF k = donorId THEN TRUE ELSE prev[k]]

\* mutant: the request toggles instead of only setting
handleRequestToggle(donorId) ==
    LET i == FindIndex(donors, donorId)
    IN /\ requestStatus' =
            IF i = 0 \/ ~donors[i].availability THEN requestStatus
            ELSE IF donorId \in DOMAIN requestStatus
                 THEN [k \in DOMAIN requestStatus \ {donorId} |-> requestStatus[k]]
                 ELSE Spread(requestStatus, donorId)
       /\ UNCHANGED <<donors, loading, selectedGroup, citySearch,
                      filteredDonors, availableCount, pc, res, body>>

\* mutant: the availability guard is missing
handleRequestUnguarded(donorId) ==
    /\ requestStatus' = Spread(requestStatus, donorId)
    /\ UNCHANGED <<donors, loading, selectedGroup, citySearch,
                   filteredDonors, availableCount, pc, res, body>>

handleRequest(donorId) ==
    LET i == FindIndex(donors, donorId)
    IN /\ UNCHANGED <<donors, loading, selectedGroup, citySearch,
                      filteredDonors, availableCount, pc, res, body>>
       /\ requestStatus' = IF i = 0 \/ ~donors[i].availability
                           THEN requestStatus
                           ELSE Spread(requestStatus, donorId)

\* the request button of the k-th card of the grid
ButtonEnabled(k) ==
    /\ View = "grid"
    /\ k \in 1..Len(filteredDonors)
    /\ ~isDisabled(filteredDonors[k])

ClickRequest(k) ==
    /\ ButtonEnabled(k)
    /\ handleRequest(filteredDonors[k].id)

(* --------------------------- specifications ---------------------------- *)
FetchSettle == FetchReject \/ \E ok \in BOOLEAN : FetchResolve(ok)
JsonSettle == JsonReject \/ \E json \in JsonValues : JsonResolve(json)

Next ==
    \/ FetchReject
    \/ \E ok \in BOOLEAN : FetchResolve(ok)
    \/ JsonReject
    \/ \E json \in JsonValues : JsonResolve(json)
    \/ \E group \in Range(ALL_BLOOD_GROUPS) : SetSelectedGroup(group)
    \/ \E text \in SearchTexts : SetCitySearch(text)
    \/ \E donorId \in UserIds : handleRequest(donorId)

Spec == Init /\ [][Next]_vars

\* the events the rendered page can issue: requests come from enabled buttons
UINext ==
    \/ FetchReject
    \/ \E ok \in BOOLEAN : FetchResolve(ok)
    \/ JsonReject
    \/ \E json \in JsonValues : JsonResolve(json)
    \/ \E group \in Range(ALL_BLOOD_GROUPS) : SetSelectedGroup(group)
    \/ \E text \in SearchTexts : SetCitySearch(text)
    \/ \E k \in 1..MaxUsers : ClickRequest(k)

SpecUI == Init /\ [][UINext]_vars

\* the promise returned by fetch() settles, and so does the one of res.json()
FairSpec == Spec /\ WF_vars(FetchSettle) /\ WF_vars(JsonSettle)

(* ======================== properties of the claims ====================== *)
\* some donor of the loaded collection has this id and is available
AvailableDonor(id) ==
    \E i \in 1..Len(donors) : donors[i].id = id /\ donors[i].availability

\* C1: requestStatus starts empty and is monotonic: an id mapped to true
\* stays mapped to true in every later state, whatever event happens.
C1_Monotonic ==
    /\ requestStatus = EmptyStatus
    /\ [][\A id \in DOMAIN requestStatus :
             id \in DOMAIN requestStatus' /\ requestStatus'[id] = TRUE]_vars

C1_Witness ==
    /\ Cardinality(DOMAIN requestStatus) >= 2
    /\ selectedGroup # "All"
    /\ citySearch # <<>>

\* C2: a request for an id with no donor, or with an unavailable donor,
\* leaves requestStatus unchanged; so every id in requestStatus is the id
\* of an available donor of the loaded collection.
C2_NoOpOnInvalid ==
    /\ [](\A id \in DOMAIN requestStatus : AvailableDonor(id))
    /\ [][\A id \in UserIds :
             (handleRequest(id) /\ ~AvailableDonor(id))
                 => requestStatus' = requestStatus]_vars

C2_Witness ==
    /\ requestStatus # EmptyStatus
    /\ \E i \in 1..Len(donors) :
          ~donors[i].availability /\ donors[i].id \notin DOMAIN requestStatus

\* C3: after any fetch failure (network error, non-2xx response, malformed
\* body) donors is empty and loading has stopped, as for an empty list.
C3_FailureLeavesNoDonors ==
    (pc = "done" /\ (res \in {"rejected", "non2xx"}
                     \/ body \in {"unparseable", "unmappable"}))
        => (donors = <<>> /\ filteredDonors = <<>> /\ ~loading)

\* C4: a request for an available donor's id yields the previous
\* requestStatus with that id mapped to true, every other entry kept, and
\* donors, selectedGroup and citySearch unchanged; repeating it changes
\* nothing more.
C4_RequestSetsEntry ==
    [][\A id \in UserIds :
          (handleRequest(id) /\ AvailableDonor(id))
              => /\ DOMAIN requestStatus' = DOMAIN requestStatus \cup {id}
                 /\ requestStatus'[id] = TRUE
                 /\ \A k \in DOMAIN requestStatus \ {id} :
                        requestStatus'[k] = requestStatus[k]
                 /\ (requested(id) => requestStatus' = requestStatus)
                 /\ UNCHANGED <<donors, selectedGroup, citySearch>>]_vars

C4_Witness ==
    /\ Cardinality(DOMAIN requestStatus) = 2
    /\ \A id \in DOMAIN requestStatus : requestStatus[id] = TRUE

\* the blood group the specification gives an id
GroupOfId(id) == CASE id % 8 = 0 -> "A+"
                   [] id % 8 = 1 -> "A-"
                   [] id % 8 = 2 -> "B+"
                   [] id % 8 = 3 -> "B-"
                   [] id % 8 = 4 -> "O+"
                   [] id % 8 = 5 -> "O-"
                   [] id % 8 = 6 -> "AB+"
                   [] id % 8 = 7 -> "AB-"

\* C5: the donors set from a list of users with ids >= 0 copy id, name and
\* city, take the blood group at index id mod 8 of the eight groups, and
\* are available exactly when id mod 3 is not 0.
C5_MapperFormula ==
    [][\A json \in JsonValues :
          (JsonResolve(json) /\ ~MapThrows(json))
              => /\ Len(donors') = Len(json.elems)
                 /\ \A i \in 1..Len(json.elems) :
                       LET u == json.elems[i]
                           d == donors'[i]
                       IN /\ u.id >= 0
                          /\ d.id = u.id
                          /\ d.name = u.name
                          /\ d.city = u.address.city
                          /\ d.bloodGroup = GroupOfId(u.id)
                          /\ d.bloodGroup \in Range(BLOOD_GROUPS)
                          /\ d.availability = (u.id % 3 # 0)]_vars

C5_Witness ==
    /\ body = "users"
    /\ Len(donors) = 2
    /\ donors[1].id = 8 /\ donors[1].bloodGroup = "A+" /\ donors[1].availability
    /\ donors[2].id = 9 /\ donors[2].bloodGroup = "A-" /\ ~donors[2].availability

\* the filter as the specification words it
RECURSIVE StripLeft(_)
StripLeft(s) == IF s = <<>> THEN <<>>
                ELSE IF Head(s) \in WhiteSpace THEN StripLeft(Tail(s))
                ELSE s
RECURSIVE StripRight(_)
StripRight(s) == IF s = <<>> THEN <<>>
                 ELSE IF s[Len(s)] \in WhiteSpace
                      THEN StripRight(SubSeq(s, 1, Len(s) - 1))
                 ELSE s
Stripped(s) == StripRight(StripLeft(s))
SameLetter(a, b) == a = b \/ {a, b} = {"G", "g"} \/ {a, b} = {"W", "w"}
ContainsIgnoringCase(city, t) ==
    \E off \in 0..(Len(city) - Len(t)) :
        \A j \in 1..Len(t) : SameLetter(city[off + j], t[j])
Retained(d) ==
    /\ selectedGroup = "All" \/ d.bloodGroup = selectedGroup
    /\ Stripped(citySearch) = <<>> \/ ContainsIgnoringCase(d.city, Stripped(citySearch))
RetainedAt == {i \in 1..Len(donors) : Retained(donors[i])}

\* C6: the filtered list is the subsequence of donors, in order, of the
\* donors passing both the group and the city predicate; with "All" and a
\* blank search it is donors itself.
C6_FilterIsSubsequence ==
    /\ Len(filteredDonors) = Cardinality(RetainedAt)
    /\ \A i \in RetainedAt :
          filteredDonors[Cardinality({j \in RetainedAt : j <= i})] = donors[i]
    /\ (selectedGroup = "All" /\ \A i \in 1..Len(citySearch) : citySearch[i] \in WhiteSpace)
          => filteredDonors = donors

C6_Witness ==
    /\ Len(donors) = 2
    /\ Len(filteredDonors) = 1
    /\ selectedGroup # "All"
    /\ Len(Stripped(citySearch)) = 1
    /\ Len(citySearch) = 3

\* C7: the available count is the number of available donors of the
\* current filtered list, and a request does not change it.
C7_CountOverFiltered ==
    /\ [](availableCount =
            Cardinality({k \in 1..Len(filteredDonors) : filteredDonors[k].availability}))
    /\ [][requestStatus' # requestStatus => availableCount' = availableCount]_vars

C7_Witness ==
    /\ availableCount = 1
    /\ Cardinality({i \in 1..Len(donors) : donors[i].availability}) = 2
    /\ requestStatus # EmptyStatus

\* C8: the view is "loading" exactly while the fetch has not settled,
\* "empty" exactly when it has settled with an empty filtered list, and
\* "grid" exactly when it has settled with a non-empty one.
C8_ViewStates ==
    /\ View \in {"loading", "empty", "grid"}
    /\ View = "loading" <=> pc # "done"
    /\ View = "empty" <=> (pc = "done" /\ Len(filteredDonors) = 0)
    /\ View = "grid" <=> (pc = "done" /\ Len(filteredDonors) > 0)

C8_Witness ==
    /\ pc = "json"
    /\ donors = <<>>
    /\ citySearch # <<>>
    /\ View = "loading"

\* C9: a request button is enabled only for an available, not yet
\* requested donor of the filtered list, so every request the page can
\* issue adds a new entry, and an id already requested has no enabled
\* button in any later state.
C9_RequestOncePerDonor ==
    /\ [](\A k \in 1..Len(filteredDonors) :
            ButtonEnabled(k) =>
                /\ filteredDonors[k].availability
                /\ filteredDonors[k].id \notin DOMAIN requestStatus
                /\ AvailableDonor(filteredDonors[k].id))
    /\ [][requestStatus' # requestStatus =>
             \E id \in UserIds :
                 /\ id \notin DOMAIN requestStatus
                 /\ AvailableDonor(id)
                 /\ DOMAIN requestStatus' = DOMAIN requestStatus \cup {id}]_vars

C9_Witness ==
    /\ View = "grid"
    /\ Stripped(citySearch) # <<>>
    /\ \E k \in 1..Len(filteredDonors) :
          filteredDonors[k].id \in DOMAIN requestStatus /\ ~ButtonEnabled(k)
    /\ \E k \in 1..Len(filteredDonors) : ButtonEnabled(k)

\* C10: loading eventually becomes false on every outcome of the fetch;
\* once false it stays false, and donors does not change after that nor
\* after it has been assigned.
C10_LoadingEnds ==
    /\ <>(~loading)
    /\ [][~loading => (~loading' /\ donors' = donors)]_vars
    /\ [][donors' # donors => (donors = <<>> /\ pc = "json" /\ pc' = "done")]_vars

C10_Witness ==
    /\ ~loading
    /\ body = "unmappable"
    /\ selectedGroup # "All"

====
